---- MODULE Spec2Model ----
(***************************************************************************)
(* Model of the Life Morale Index scoring core (lib/scoring.ts) and of the *)
(* request handler that calls it (app/api/score/route.ts).                 *)
(*                                                                         *)
(* Numbers.  A JavaScript number is modelled as an exact rational <<n, d>> *)
(* in lowest terms with d > 0; floating-point rounding is not modelled.    *)
(* An absent value (undefined or null, which the code never tells apart:   *)
(* it only uses `== null`, `??` and `typeof x === "number"`) is the empty  *)
(* tuple Null.  An optional raw score is <<>> or <<s>>, an optional note   *)
(* <<>> or <<text>>, an optional record <<>> or <<record>>.                *)
(*                                                                         *)
(* Arrays.  A JavaScript array is a sequence; the element at JavaScript    *)
(* index i is at position i + 1 (see At).                                  *)
(***************************************************************************)
EXTENDS Integers, Sequences, FiniteSets, TLC

VARIABLES body, pc, loc, result, response

vars == <<body, pc, loc, result, response>>

Null == <<>>

----------------------------------------------------------------------------
(* Exact rational arithmetic standing for the code's number arithmetic.    *)

Abs(x) == IF x < 0 THEN -x ELSE x

RECURSIVE GCD(_, _)
GCD(a, b) == IF b = 0 THEN a ELSE GCD(b, a % b)

RNorm(n, d) ==
  LET g == GCD(Abs(n), d) IN <<n \div g, d \div g>>

R(n) == <<n, 1>>

Frac(n, d) == RNorm(n, d)

RAdd(a, b) ==
  LET g == GCD(a[2], b[2])
  IN RNorm(a[1] * (b[2] \div g) + b[1] * (a[2] \div g), (a[2] \div g) * b[2])

RNeg(a) == <<-a[1], a[2]>>

RSub(a, b) == RAdd(a, RNeg(b))

RMul(a, b) ==
  LET g1 == GCD(Abs(a[1]), b[2])
      g2 == GCD(Abs(b[1]), a[2])
  IN IF a[1] = 0 \/ b[1] = 0 THEN <<0, 1>>
     ELSE <<(a[1] \div g1) * (b[1] \div g2), (a[2] \div g2) * (b[2] \div g1)>>

RInv(a) == IF a[1] < 0 THEN <<-a[2], -a[1]>> ELSE <<a[2], a[1]>>

RDiv(a, b) == RMul(a, RInv(b))

RLe(a, b) ==
  LET g == GCD(a[2], b[2])
  IN a[1] * (b[2] \div g) <= b[1] * (a[2] \div g)

RLt(a, b) == RLe(a, b) /\ a # b

RMax(a, b) == IF RLe(a, b) THEN b ELSE a

RMin(a, b) == IF RLe(a, b) THEN a ELSE b

RECURSIVE RSum(_)
RSum(s) == IF s = <<>> THEN R(0) ELSE RAdd(Head(s), RSum(Tail(s)))

(* Products of two such rationals can exceed the integers at hand, so the   *)
(* results of the code's last two multiplications (riAdjusted, finalLMI) are *)
(* held as wide rationals [neg, num, den]: num and den are natural numbers  *)
(* written as little-endian digit sequences in base LimbBase with no        *)
(* leading zero digit (0 is <<>>), and num/den is in lowest terms, so equal *)
(* values have equal representations.                                       *)
LimbBase == 10 ^ 4

RECURSIVE ToLimbs(_)
ToLimbs(n) == IF n = 0 THEN <<>> ELSE <<n % LimbBase>> \o ToLimbs(n \div LimbBase)

RECURSIVE LimbsAdd(_, _, _)
LimbsAdd(x, y, carry) ==
  IF x = <<>> /\ y = <<>> THEN ToLimbs(carry)
  ELSE LET v == (IF x = <<>> THEN 0 ELSE Head(x)) + (IF y = <<>> THEN 0 ELSE Head(y)) + carry
       IN <<v % LimbBase>> \o LimbsAdd(IF x = <<>> THEN <<>> ELSE Tail(x),
                                       IF y = <<>> THEN <<>> ELSE Tail(y),
                                       v \div LimbBase)

(* x * m for a digit or other small m *)
RECURSIVE LimbsMulSmall(_, _, _)
LimbsMulSmall(x, m, carry) ==
  IF x = <<>> \/ m = 0 THEN ToLimbs(carry)
  ELSE LET v == Head(x) * m + carry
       IN <<v % LimbBase>> \o LimbsMulSmall(Tail(x), m, v \div LimbBase)

LimbsShift(x) == IF x = <<>> THEN <<>> ELSE <<0>> \o x

RECURSIVE LimbsMul(_, _)
LimbsMul(x, y) ==
  IF x = <<>> \/ y = <<>> THEN <<>>
  ELSE LimbsAdd(LimbsMulSmall(x, Head(y), 0), LimbsShift(LimbsMul(x, Tail(y))), 0)

(* x mod m and x div m for a small m > 0, most significant digit first *)
RECURSIVE LimbsMod(_, _)
LimbsMod(x, m) ==
  IF x = <<>> THEN 0
  ELSE (LimbsMod(Tail(x), m) * LimbBase + Head(x)) % m

RECURSIVE LimbsDiv(_, _)
LimbsDiv(x, m) ==
  IF x = <<>> THEN <<>>
  ELSE LET hi  == LimbsDiv(Tail(x), m)
           rem == LimbsMod(Tail(x), m)
           d   == (rem * LimbBase + Head(x)) \div m
       IN IF hi = <<>> /\ d = 0 THEN <<>> ELSE <<d>> \o hi

WZero == [neg |-> FALSE, num |-> <<>>, den |-> <<1>>]

(* the wide form of a rational *)
ToWide(a) ==
  IF a[1] = 0 THEN WZero
  ELSE [neg |-> a[1] < 0, num |-> ToLimbs(Abs(a[1])), den |-> ToLimbs(a[2])]

(* a * b for rationals a and b *)
WMul(a, b) ==
  LET g1 == GCD(Abs(a[1]), b[2])
      g2 == GCD(Abs(b[1]), a[2])
  IN IF a[1] = 0 \/ b[1] = 0 THEN WZero
     ELSE [neg |-> (a[1] < 0) # (b[1] < 0),
           num |-> LimbsMul(ToLimbs(Abs(a[1]) \div g1), ToLimbs(Abs(b[1]) \div g2)),
           den |-> LimbsMul(ToLimbs(a[2] \div g2), ToLimbs(b[2] \div g1))]

(* w * r for a wide w and a rational r with small numerator and denominator *)
WScale(w, r) ==
  LET p  == Abs(r[1])
      g1 == IF p = 0 THEN 1 ELSE GCD(p, LimbsMod(w.den, p))
      g2 == GCD(r[2], LimbsMod(w.num, r[2]))
  IN IF w.num = <<>> \/ p = 0 THEN WZero
     ELSE [neg |-> w.neg # (r[1] < 0),
           num |-> LimbsMulSmall(LimbsDiv(w.num, g2), p \div g1, 0),
           den |-> LimbsMulSmall(LimbsDiv(w.den, g1), r[2] \div g2, 0)]

(* a ?? b *)
Coalesce(a, b) == IF a = Null THEN b ELSE a

(* arr[i] for a JavaScript index i: undefined outside the array *)
At(arr, i) == IF (i + 1) \in DOMAIN arr THEN arr[i + 1] ELSE Null

(* arr.map(f) *)
Map(arr, f(_)) == [j \in 1..Len(arr) |-> f(arr[j])]

----------------------------------------------------------------------------
(* lib/scoring.ts                                                          *)

TimeCategory ==
  {"Sleep", "Work", "Commute", "Relationships", "Leisure",
   "Gym", "Chores", "Growth", "Other"}

DimensionKey == {"Fulfillment", "Connection", "Autonomy", "Vitality", "Peace"}

NumAnswers == 24

WeekHours == 168

DefaultSleepHours == 49

NeutralRI == 5

DefaultAlpha == 20

(* k = 1.936428228, held in units of 10^-9 *)
DefaultK == 1936428228

DefaultMax == Frac(875, 100)

DEFAULT_CONFIG ==
  [calibration |-> [k |-> DefaultK, max |-> DefaultMax],
   ri          |-> [globalMultiplier |-> R(1)],
   crossLift   |-> [enabled |-> FALSE, alpha |-> R(DefaultAlpha)]]

DIM_MAP ==
  [Fulfillment |-> <<0, 1, 2, 3, 4>>,
   Connection  |-> <<5, 6, 7, 8, 9>>,
   Autonomy    |-> <<10, 11, 12, 13, 14>>,
   Vitality    |-> <<15, 16, 17, 18, 19>>,
   Peace       |-> <<20, 21, 22, 23>>]

riToInternal(ri) ==
  IF ri = Null THEN R(0)
  ELSE IF RLt(ri, R(5)) THEN RMul(RSub(ri, R(5)), Frac(75, 1000))
  ELSE IF ri = R(5) THEN R(0)
  ELSE RMul(RSub(ri, R(5)), Frac(6, 100))

(* (1 - exp(-k * x/10)) / (1 - exp(-k)) at k = DefaultK for x = 1..10, in   *)
(* hundredths (the exponential has no exact value; x = 10 gives exactly 1   *)
(* because numerator and denominator are then the same expression).         *)
SaturationPct == <<21, 38, 51, 63, 72, 80, 87, 92, 96, 100>>

(* s is an optional integer score <<>> or <<n>> *)
calibrate(s, k, max) ==
  IF s = Null THEN Null
  ELSE LET x == IF s[1] < 1 THEN 1 ELSE IF s[1] > 10 THEN 10 ELSE s[1]
       IN RMul(max, Frac(SaturationPct[x], 100))

(* avg with 0 in place of null for an empty selection *)
avg_ZeroWhenEmpty(nums) ==
  LET v == SelectSeq(nums, LAMBDA n : n # Null)
  IN IF Len(v) = 0 THEN R(0) ELSE RDiv(RSum(v), R(Len(v)))

avg(nums) ==
  LET v == SelectSeq(nums, LAMBDA n : n # Null)
  IN IF Len(v) = 0 THEN Null ELSE RDiv(RSum(v), R(Len(v)))

qualityFromSections(d, base) ==
  [Work          |-> Coalesce(d.Autonomy, Coalesce(base, R(0))),
   Commute       |-> Coalesce(d.Peace, Coalesce(base, R(0))),
   Gym           |-> Coalesce(d.Vitality, Coalesce(base, R(0))),
   Relationships |-> Coalesce(d.Connection, Coalesce(base, R(0))),
   Leisure       |-> Coalesce(d.Fulfillment, Coalesce(base, R(0))),
   Other         |-> Coalesce(base, R(0))]

(* input.config?.<name> *)
ConfigField(input, name) ==
  IF input.config = Null THEN Null ELSE input.config[1][name]

(* the comparator of a sort call: sign = 1 is (a, b) => a.s - b.s,          *)
(* sign = -1 is (a, b) => b.s - a.s                                        *)
Comparator(sign, a, b) == sign * (a.s - b.s)

(* an insertion that puts x after the elements it ties with *)
RECURSIVE InsertStable_TiesAfter(_, _, _)
InsertStable_TiesAfter(x, sorted, sign) ==
  IF sorted = <<>> THEN <<x>>
  ELSE IF Comparator(sign, x, Head(sorted)) < 0 THEN <<x>> \o sorted
  ELSE <<Head(sorted)>> \o InsertStable_TiesAfter(x, Tail(sorted), sign)

(* x stood before every element of sorted: it goes before the first one    *)
(* that the comparator does not put before it                               *)
RECURSIVE InsertStable(_, _, _)
InsertStable(x, sorted, sign) ==
  IF sorted = <<>> THEN <<x>>
  ELSE IF Comparator(sign, x, Head(sorted)) <= 0 THEN <<x>> \o sorted
  ELSE <<Head(sorted)>> \o InsertStable(x, Tail(sorted), sign)

(* Array.prototype.sort with the comparator above, a stable sort: elements  *)
(* that the comparator ties keep their order.                               *)
RECURSIVE Sort(_, _)
Sort(arr, sign) ==
  IF arr = <<>> THEN <<>>
  ELSE InsertStable(Head(arr), Sort(Tail(arr), sign), sign)

(* arr.slice(0, n) *)
Slice(arr, n) == SubSeq(arr, 1, IF Len(arr) < n THEN Len(arr) ELSE n)

TopCount == 3

(* the uplift without the clamp of the internal RI at 0 *)
Uplift_SignedRI(crossLift, by, awakeHours, workQ) ==
  LET frac(c) == IF awakeHours # R(0) THEN RDiv(by[c].hours, awakeHours) ELSE R(0)
  IN RMul(RMul(crossLift.alpha,
               RAdd(RAdd(RMul(frac("Relationships"), riToInternal(by["Relationships"].ri)),
                         RMul(frac("Gym"), riToInternal(by["Gym"].ri))),
                    RMul(frac("Leisure"), riToInternal(by["Leisure"].ri)))),
          RDiv(RSub(R(10), workQ), R(10)))

(* cfg.crossLift.alpha * (relFrac*relRI + gymFrac*gymRI + leisFrac*leisRI)  *)
(* * ((10 - workQ) / 10), lines 143-149 and 195-201                         *)
Uplift(crossLift, by, awakeHours, workQ) ==
  LET frac(c) == IF awakeHours # R(0) THEN RDiv(by[c].hours, awakeHours) ELSE R(0)
      relFrac  == frac("Relationships")
      gymFrac  == frac("Gym")
      leisFrac == frac("Leisure")
      relRI  == RMax(R(0), riToInternal(by["Relationships"].ri))
      gymRI  == RMax(R(0), riToInternal(by["Gym"].ri))
      leisRI == RMax(R(0), riToInternal(by["Leisure"].ri))
  IN RMul(RMul(crossLift.alpha,
               RAdd(RAdd(RMul(relFrac, relRI), RMul(gymFrac, gymRI)),
                    RMul(leisFrac, leisRI))),
          RDiv(RSub(R(10), workQ), R(10)))

(* the cross-lift applied whether enabled or not *)
CrossLift_AlwaysOn(crossLift, by, awakeHours, workQ) ==
  RMin(R(10), RMax(R(1), RAdd(workQ, Uplift(crossLift, by, awakeHours, workQ))))

(* if (cfg.crossLift.enabled) { ... workQ = min(10, max(1, workQ + uplift)) } *)
CrossLift(crossLift, by, awakeHours, workQ) ==
  IF crossLift.enabled
  THEN RMin(R(10), RMax(R(1), RAdd(workQ, Uplift(crossLift, by, awakeHours, workQ))))
  ELSE workQ

(* the hour-weighted sum of the six awake buckets, lines 160-165 and 171-176 *)
AwakeSum(by, otherAwake, q) ==
  RSum(<<RMul(by["Work"].hours, q.Work),
         RMul(by["Commute"].hours, q.Commute),
         RMul(by["Gym"].hours, q.Gym),
         RMul(by["Relationships"].hours, q.Relationships),
         RMul(by["Leisure"].hours, q.Leisure),
         RMul(otherAwake, q.Other)>>)

(* rawLMS with Sleep weighted by the awake average itself *)
RawLMS_SleepAsAwake(by, awakeHours, otherAwake, q) ==
  LET awakeWeighted == RDiv(AwakeSum(by, otherAwake, q),
                            IF awakeHours # R(0) THEN awakeHours ELSE R(1))
  IN RDiv(RAdd(AwakeSum(by, otherAwake, q), RMul(by["Sleep"].hours, awakeWeighted)),
          R(WeekHours))

(* (awakeSum + by.Sleep.hours * sleepQ) / 168 with sleepQ = (10 + awakeWeighted) / 2 *)
RawLMS(by, awakeHours, otherAwake, q) ==
  LET awakeWeighted == RDiv(AwakeSum(by, otherAwake, q),
                            IF awakeHours # R(0) THEN awakeHours ELSE R(1))
      sleepQ == RDiv(RAdd(R(10), awakeWeighted), R(2))
  IN RDiv(RAdd(AwakeSum(by, otherAwake, q), RMul(by["Sleep"].hours, sleepQ)),
          R(WeekHours))

(* cfg: each group of input.config or, when absent, of DEFAULT_CONFIG       *)
Cfg(input) ==
  [calibration |-> Coalesce(ConfigField(input, "calibration"),
                            <<DEFAULT_CONFIG.calibration>>)[1],
   ri          |-> Coalesce(ConfigField(input, "ri"), <<DEFAULT_CONFIG.ri>>)[1],
   crossLift   |-> Coalesce(ConfigField(input, "crossLift"),
                            <<DEFAULT_CONFIG.crossLift>>)[1]]

(* input.answers.map(a => calibrate(a[field], k, max)) *)
Calibrated(answers, field, calibration) ==
  Map(answers, LAMBDA a : calibrate(a[field], calibration.k, calibration.max))

(* sectionCurrent / sectionScenario: avg over each dimension's indices *)
Section(arr) ==
  [dim \in DimensionKey |-> avg(Map(DIM_MAP[dim], LAMBDA i : At(arr, i)))]

(* find with the last row of the category winning *)
find_LastRow(timeMap, c) ==
  LET hits == {j \in 1..Len(timeMap) : timeMap[j].category = c}
  IN IF hits = {}
     THEN [category |-> c,
           hours |-> IF c = "Sleep" THEN R(DefaultSleepHours) ELSE R(0),
           ri |-> R(NeutralRI)]
     ELSE timeMap[CHOOSE j \in hits : \A h \in hits : j >= h]

(* find(c): the first row of the category, or the default row *)
find(timeMap, c) ==
  LET hits == {j \in 1..Len(timeMap) : timeMap[j].category = c}
  IN IF hits = {}
     THEN [category |-> c,
           hours |-> IF c = "Sleep" THEN R(DefaultSleepHours) ELSE R(0),
           ri |-> R(NeutralRI)]
     ELSE timeMap[CHOOSE j \in hits : \A h \in hits : j <= h]

By(timeMap) == [c \in TimeCategory |-> find(timeMap, c)]

AwakeHours(by) == RMax(R(0), RSub(R(WeekHours), by["Sleep"].hours))

OtherAwake(by, awakeHours) ==
  RMax(R(0), RSub(awakeHours,
                  RSum(<<by["Work"].hours, by["Commute"].hours, by["Gym"].hours,
                         by["Relationships"].hours, by["Leisure"].hours>>)))

(* netRI with the Other row's own hours in place of the residual hours *)
NetRI_OtherRowHours(by, otherAwake) ==
  RSum(<<RMul(RDiv(by["Work"].hours, R(WeekHours)), riToInternal(by["Work"].ri)),
         RMul(RDiv(by["Commute"].hours, R(WeekHours)), riToInternal(by["Commute"].ri)),
         RMul(RDiv(by["Gym"].hours, R(WeekHours)), riToInternal(by["Gym"].ri)),
         RMul(RDiv(by["Relationships"].hours, R(WeekHours)),
              riToInternal(by["Relationships"].ri)),
         RMul(RDiv(by["Leisure"].hours, R(WeekHours)), riToInternal(by["Leisure"].ri)),
         RMul(RDiv(by["Other"].hours, R(WeekHours)), riToInternal(by["Other"].ri))>>)

NetRI(by, otherAwake) ==
  RSum(<<RMul(RDiv(by["Work"].hours, R(WeekHours)), riToInternal(by["Work"].ri)),
         RMul(RDiv(by["Commute"].hours, R(WeekHours)), riToInternal(by["Commute"].ri)),
         RMul(RDiv(by["Gym"].hours, R(WeekHours)), riToInternal(by["Gym"].ri)),
         RMul(RDiv(by["Relationships"].hours, R(WeekHours)),
              riToInternal(by["Relationships"].ri)),
         RMul(RDiv(by["Leisure"].hours, R(WeekHours)), riToInternal(by["Leisure"].ri)),
         RMul(RDiv(otherAwake, R(WeekHours)), riToInternal(by["Other"].ri))>>)

(* the scenario qualities: dimQ_s.X ?? the quality the current run used *)
ScenarioQ(dimQ_s, q, workQ_s) ==
  [Work          |-> workQ_s,
   Commute       |-> Coalesce(dimQ_s.Commute, q.Commute),
   Gym           |-> Coalesce(dimQ_s.Gym, q.Gym),
   Relationships |-> Coalesce(dimQ_s.Relationships, q.Relationships),
   Leisure       |-> Coalesce(dimQ_s.Leisure, q.Leisure),
   Other         |-> Coalesce(dimQ_s.Other, q.Other)]

(* topDrainers (sign = 1) and topUplifters (sign = -1), lines 234-237 *)
Top(answers, sign) ==
  LET idxs  == SelectSeq([j \in 1..Len(answers) |-> [i |-> j - 1, s |-> answers[j].score]],
                         LAMBDA x : x.s # Null)
      keyed == Map(idxs, LAMBDA x : [i |-> x.i, s |-> x.s[1]])
  IN Map(Slice(Sort(keyed, sign), TopCount),
         LAMBDA x : [index |-> x.i, score |-> x.s, note |-> At(answers, x.i).note])

(* The locals of scoreLMI as they stand when control reaches the return     *)
(* statement (lines 88-237).                                                *)
scoreLMI_locals(input) ==
  LET cfg      == Cfg(input)
      current  == Calibrated(input.answers, "score", cfg.calibration)
      scenario == Calibrated(input.answers, "scenarioScore", cfg.calibration)
      sectionCurrent  == Section(current)
      sectionScenario == Section(scenario)
      baseAvgAll     == avg(current)
      baseAvgAll_scn == avg(scenario)
      by == By(input.timeMap)
      awakeHours == AwakeHours(by)
      otherAwake == OtherAwake(by, awakeHours)
      dimQ   == qualityFromSections(sectionCurrent, baseAvgAll)
      dimQ_s == qualityFromSections(sectionScenario, Coalesce(baseAvgAll_scn, baseAvgAll))
      workQ0 == dimQ.Work
      workQ  == CrossLift(cfg.crossLift, by, awakeHours, workQ0)
      q == [dimQ EXCEPT !.Work = workQ]
      rawLMS == RawLMS(by, awakeHours, otherAwake, q)
      netRI  == NetRI(by, otherAwake)
      globalMultiplier ==
        LET ri == ConfigField(input, "ri")
        IN Coalesce(IF ri = Null THEN Null ELSE ri[1].globalMultiplier, R(1))
      riFactor   == RAdd(R(1), RMul(globalMultiplier, netRI))
      riAdjusted == WMul(rawLMS, riFactor)
      LMC        == RSub(R(10), RMul(Frac(2, 10), Coalesce(input.ELI, R(1))))
      finalLMI   == WScale(riAdjusted, RDiv(LMC, R(10)))
      workQ_s0 == Coalesce(dimQ_s.Work, workQ)
      workQ_s  == CrossLift(cfg.crossLift, by, awakeHours, workQ_s0)
      q_s == ScenarioQ(dimQ_s, q, workQ_s)
      rawLMS_s     == RawLMS(by, awakeHours, otherAwake, q_s)
      riAdjusted_s == WMul(rawLMS_s, riFactor)
      finalLMI_s   == WScale(riAdjusted_s, RDiv(LMC, R(10)))
  IN [cfg |-> cfg, current |-> current, scenario |-> scenario,
      sectionCurrent |-> sectionCurrent, sectionScenario |-> sectionScenario,
      baseAvgAll |-> baseAvgAll, baseAvgAll_scn |-> baseAvgAll_scn,
      by |-> by, awakeHours |-> awakeHours, otherAwake |-> otherAwake,
      dimQ |-> dimQ, dimQ_s |-> dimQ_s,
      workQ0 |-> workQ0, workQ |-> workQ, q |-> q,
      rawLMS |-> rawLMS, netRI |-> netRI,
      riAdjusted |-> riAdjusted, LMC |-> LMC, finalLMI |-> finalLMI,
      workQ_s0 |-> workQ_s0, workQ_s |-> workQ_s, q_s |-> q_s, rawLMS_s |-> rawLMS_s,
      riAdjusted_s |-> riAdjusted_s, finalLMI_s |-> finalLMI_s,
      drains |-> Top(input.answers, 1), lifts |-> Top(input.answers, -1)]

(* The identifiers in scope at the return statement: the parameter and the  *)
(* const/let declarations of lines 88-237.                                  *)
Declared ==
  {"input", "cfg", "current", "scenario", "sectionCurrent", "sectionScenario",
   "baseAvgAll", "baseAvgAll_scn", "find", "by", "awakeHours", "otherAwake",
   "dimQ", "dimQ_s", "workQ", "commuteQ", "gymQ", "relQ", "leisQ", "otherQ",
   "awakeWeighted", "sleepQ", "rawLMS", "netRI", "riAdjusted", "LMC", "finalLMI",
   "workQ_s", "commuteQ_s", "gymQ_s", "relQ_s", "leisQ_s", "otherQ_s",
   "awakeWeighted_s", "sleepQ_s", "rawLMS_s", "riAdjusted_s", "finalLMI_s",
   "baseScores", "idxs", "drains", "lifts"}

(* The identifiers the object literal of the return statement reads, in     *)
(* evaluation order (lines 240-244).                                        *)
ReturnReads ==
  <<"current", "scenario", "sectionCurrent", "sectionScenario",
    "rawLMS", "riAdjusted", "finalLMI",
    "rawLMS_scn", "riAdjusted_scn", "finalLMI_scn",
    "drains", "lifts">>

(* The return statement on the locals l.  Reading an identifier that is    *)
(* not in scope throws a ReferenceError before the object is built.         *)
ReturnStatement(l) ==
  LET unbound == {j \in 1..Len(ReturnReads) : ReturnReads[j] \notin Declared}
  IN IF unbound = {}
     THEN [kind |-> "return",
           value |->
             [calibrated |-> [current |-> l.current, scenario |-> l.scenario],
              sectionAverages |-> [current |-> l.sectionCurrent,
                                   scenario |-> l.sectionScenario],
              rawLMS |-> l.rawLMS, riAdjusted |-> l.riAdjusted, finalLMI |-> l.finalLMI,
              rawLMS_scn |-> l["rawLMS_scn"], riAdjusted_scn |-> l["riAdjusted_scn"],
              finalLMI_scn |-> l["finalLMI_scn"],
              topDrainers |-> l.drains, topUplifters |-> l.lifts]]
     ELSE [kind |-> "throw",
           error |-> [name |-> "ReferenceError",
                      identifier |-> ReturnReads[CHOOSE j \in unbound :
                                                   \A h \in unbound : j <= h]]]

scoreLMI(input) == ReturnStatement(scoreLMI_locals(input))

----------------------------------------------------------------------------
(* The request bodies the model draws from.                                 *)

NoteText ==
  <<"n0", "n1", "n2", "n3", "n4", "n5", "n6", "n7", "n8", "n9", "n10", "n11",
    "n12", "n13", "n14", "n15", "n16", "n17", "n18", "n19", "n20", "n21", "n22", "n23">>

(* every third answer carries no note *)
NoteOf(i) == IF i % 3 = 2 THEN Null ELSE <<NoteText[i + 1]>>

(* the answers whose score and scenarioScore vary freely; the others share  *)
(* one background score and have no scenarioScore                           *)
NumFree == 2

FreeOrder == <<0, 10, 1, 20>>

FreeIdx == {FreeOrder[j] : j \in 1..NumFree}

ScoreOpts == {Null, <<0>>, <<3>>, <<10>>}

ScenarioOpts == {Null, <<8>>}

BackgroundOpts == {Null, <<10>>}

Sheet(bg, sc, sn) ==
  [j \in 1..NumAnswers |->
     IF (j - 1) \in FreeIdx
     THEN [score |-> sc[j - 1], scenarioScore |-> sn[j - 1], note |-> NoteOf(j - 1)]
     ELSE [score |-> bg, scenarioScore |-> Null, note |-> NoteOf(j - 1)]]

Sheets ==
  {Sheet(bg, sc, sn) : bg \in BackgroundOpts,
                       sc \in [FreeIdx -> ScoreOpts], sn \in [FreeIdx -> ScenarioOpts]}

Row(c, h, ri) == [category |-> c, hours |-> R(h), ri |-> ri]

(* per category: the rows a time map may hold for it (Null: no row) *)
RowOpts ==
  [Sleep         |-> {Null, Row("Sleep", 56, R(5)), Row("Sleep", 170, R(6))},
   Work          |-> {Null, Row("Work", 40, R(3)), Row("Work", 100, R(8))},
   Gym           |-> {Null, Row("Gym", 5, R(10))},
   Relationships |-> {Null, Row("Relationships", 15, R(7)), Row("Relationships", 15, R(4))},
   Leisure       |-> {Null, Row("Leisure", 20, R(6))},
   Other         |-> {Null, Row("Other", 30, R(2))}]

CategoryOrder ==
  <<"Sleep", "Work", "Commute", "Relationships", "Leisure", "Gym", "Chores", "Growth", "Other">>

RECURSIVE Rows(_, _)
Rows(pick, j) ==
  IF j > Len(CategoryOrder) THEN <<>>
  ELSE (IF pick[CategoryOrder[j]] = Null THEN <<>> ELSE <<pick[CategoryOrder[j]]>>)
       \o Rows(pick, j + 1)

(* a later row of a category that already has one, with other hours and RI *)
Shadowed(rows) == Map(rows, LAMBDA r : [r EXCEPT !.hours = RAdd(@, R(7)), !.ri = R(9)])

RECURSIVE Repeat(_, _)
Repeat(rows, n) == IF n = 0 THEN <<>> ELSE Shadowed(rows) \o Repeat(rows, n - 1)

(* how many times a time map may repeat its rows *)
MaxRepeats == 1

Picks ==
  {[Sleep |-> s, Work |-> w, Commute |-> IF u THEN Row("Commute", 5, R(1)) ELSE Null,
    Gym |-> g, Relationships |-> r, Leisure |-> l,
    Chores |-> IF u THEN Row("Chores", 10, R(2)) ELSE Null,
    Growth |-> IF u THEN Row("Growth", 5, R(9)) ELSE Null, Other |-> o] :
     s \in RowOpts.Sleep, w \in RowOpts.Work, g \in RowOpts.Gym,
     r \in RowOpts.Relationships, l \in RowOpts.Leisure,
     u \in BOOLEAN, o \in RowOpts.Other}

TimeMaps == {Rows(p, 1) \o Repeat(Rows(p, 1), n) : p \in Picks, n \in 0..MaxRepeats}

CrossLiftOn(alpha) ==
  [calibration |-> Null, ri |-> Null,
   crossLift |-> <<[enabled |-> TRUE, alpha |-> R(alpha)]>>]

AllTens ==
  [j \in 1..NumAnswers |-> [score |-> <<10>>, scenarioScore |-> Null, note |-> NoteOf(j - 1)]]

(* three scored answers, one of them with a scenarioScore *)
Sparse ==
  [j \in 1..NumAnswers |->
     [score |-> IF j - 1 = 0 THEN <<0>> ELSE IF j - 1 = 10 THEN <<6>>
                ELSE IF j - 1 = 1 THEN <<5>> ELSE Null,
      scenarioScore |-> IF j - 1 = 0 THEN <<8>> ELSE Null,
      note |-> NoteOf(j - 1)]]

(* the answers, ELI and config every time map of TimeMaps is scored with *)
Scenes ==
  {[answers |-> AllTens, ELI |-> Null, config |-> Null],
   [answers |-> Sparse, ELI |-> R(1), config |-> <<CrossLiftOn(20)>>],
   [answers |-> AllTens, ELI |-> R(10),
    config |-> <<[calibration |-> Null,
                  ri |-> <<[globalMultiplier |-> R(2)]>>,
                  crossLift |-> <<[enabled |-> TRUE, alpha |-> R(300)]>>]>>],
   [answers |-> Sparse, ELI |-> R(1),
    config |-> <<[calibration |-> <<[k |-> DefaultK, max |-> R(10)]>>,
                  ri |-> <<[globalMultiplier |-> Null]>>,
                  crossLift |-> <<[enabled |-> FALSE, alpha |-> R(7)]>>]>>]}

FullTimeMap ==
  <<Row("Work", 40, R(3)), Row("Relationships", 20, R(7)), Row("Sleep", 48, R(5)),
    Row("Gym", 10, R(10)), Row("Other", 30, R(2)), Row("Work", 10, R(9))>>

(* the three surroundings every sheet of Sheets is scored in *)
FewSurroundings ==
  {[timeMap |-> <<>>, ELI |-> R(1), config |-> Null],
   [timeMap |-> FullTimeMap, ELI |-> R(1), config |-> Null],
   [timeMap |-> FullTimeMap, ELI |-> R(1), config |-> <<CrossLiftOn(20)>>]}

Inputs ==
  {[answers |-> a, timeMap |-> s.timeMap, ELI |-> s.ELI, config |-> s.config] :
     a \in Sheets, s \in FewSurroundings}
  \cup
  {[answers |-> s.answers, timeMap |-> t, ELI |-> s.ELI, config |-> s.config] :
     t \in TimeMaps, s \in Scenes}

----------------------------------------------------------------------------
(* app/api/score/route.ts                                                   *)

Init ==
  /\ body \in Inputs
  /\ pc = "received"
  /\ loc = Null
  /\ result = Null
  /\ response = Null

(* const result = scoreLMI(body): the call runs to its return statement *)
CallScoreLMI ==
  /\ pc = "received"
  /\ LET l == scoreLMI_locals(body)
     IN /\ loc' = <<l>>
        /\ result' = <<ReturnStatement(l)>>
  /\ pc' = "scored"
  /\ UNCHANGED <<body, response>>

(* return NextResponse.json(result), or the catch clause's 400 response *)
Respond ==
  /\ pc = "scored"
  /\ response' =
       IF result[1].kind = "return"
       THEN <<[status |-> 200, json |-> result[1].value]>>
       ELSE <<[status |-> 400, json |-> [error |-> result[1].error]]>>
  /\ pc' = "responded"
  /\ UNCHANGED <<body, loc, result>>

Next == CallScoreLMI \/ Respond

Spec == Init /\ [][Next]_vars

TypeOK ==
  /\ pc \in {"received", "scored", "responded"}
  /\ (pc = "received") = (loc = Null)
  /\ (pc = "responded") = (response # Null)

----------------------------------------------------------------------------
(* Properties.                                                              *)

(* the locals of the call that has run *)
L == loc[1]

Called == pc # "received"

(* The values the return statement is written to carry, with the scenario   *)
(* results taken from rawLMS_s, riAdjusted_s and finalLMI_s.                *)
ComputedOf(l) ==
  [calibrated |-> [current |-> l.current, scenario |-> l.scenario],
   sectionAverages |-> [current |-> l.sectionCurrent, scenario |-> l.sectionScenario],
   rawLMS |-> l.rawLMS, riAdjusted |-> l.riAdjusted, finalLMI |-> l.finalLMI,
   rawLMS_scn |-> l.rawLMS_s, riAdjusted_scn |-> l.riAdjusted_s,
   finalLMI_scn |-> l.finalLMI_s,
   topDrainers |-> l.drains, topUplifters |-> l.lifts,
   outcome |-> ReturnStatement(l)]

Computed(input) == ComputedOf(scoreLMI_locals(input))

(* C1: for every well-formed input scoreLMI returns an Output record and    *)
(* never fails, and the handler answers with the result, not with the 400   *)
(* error response.                                                          *)
C1_ReturnsOutput ==
  /\ Called => result[1].kind = "return"
  /\ pc = "responded" => response[1].status = 200

NoScenarioScore(input) ==
  \A j \in 1..Len(input.answers) : input.answers[j].scenarioScore = Null

(* C2: when no answer has a scenarioScore, the scenario results equal the   *)
(* current results: rawLMS, riAdjusted and finalLMI alike.                  *)
C2_ScenarioCollapse ==
  (Called /\ NoScenarioScore(body)) =>
     /\ L.rawLMS_s = L.rawLMS
     /\ L.riAdjusted_s = L.riAdjusted
     /\ L.finalLMI_s = L.finalLMI

BucketDim ==
  [Work |-> "Autonomy", Commute |-> "Peace", Gym |-> "Vitality",
   Relationships |-> "Connection", Leisure |-> "Fulfillment"]

(* C3: in the scenario run, a bucket whose mapped scenario dimension        *)
(* average is null takes the quality the current run used for that bucket   *)
(* (for Work: before the scenario run's own cross-lift).                    *)
C3_PartialScenarioFallback ==
  Called =>
    \A b \in DOMAIN BucketDim :
       L.sectionScenario[BucketDim[b]] = Null =>
          (IF b = "Work" THEN L.workQ_s0 ELSE L.q_s[b]) = L.q[b]

AllTensExample(input) ==
  /\ Len(input.answers) = NumAnswers
  /\ \A j \in 1..Len(input.answers) : input.answers[j].score = <<10>>
  /\ input.timeMap = <<>>
  /\ input.ELI = R(1)
  /\ input.config = Null

AllTensCommon ==
  /\ \A j \in 1..NumAnswers : L.current[j] = Frac(875, 100)
  /\ \A dim \in DimensionKey : L.sectionCurrent[dim] = Frac(875, 100)
  /\ L.by["Sleep"].hours = R(49)
  /\ \A c \in TimeCategory \ {"Sleep"} : L.by[c].hours = R(0)
  /\ \A c \in TimeCategory : L.by[c].ri = R(5)
  /\ L.netRI = R(0)

(* C4 as stated: on the all-tens example rawLMS, riAdjusted and finalLMI    *)
(* all equal 8.575.                                                         *)
C4_AllEqual8575 ==
  (Called /\ AllTensExample(body)) =>
     /\ AllTensCommon
     /\ L.rawLMS = Frac(8575, 1000)
     /\ L.riAdjusted = ToWide(Frac(8575, 1000))
     /\ L.finalLMI = ToWide(Frac(8575, 1000))

(* C4 (amended): on the all-tens example every calibrated value and every   *)
(* dimension average is 8.75 and netRI is 0; rawLMS and riAdjusted are      *)
(* (119 * 8.75 + 49 * 9.375) / 168 = 1715/192 (about 8.932), because Sleep  *)
(* is weighted with (10 + 8.75) / 2; finalLMI is 0.98 times that,           *)
(* 16807/1920 (about 8.754).                                                *)
C4_AllTensExample ==
  (Called /\ AllTensExample(body)) =>
     /\ AllTensCommon
     /\ L.rawLMS = Frac(1715, 192)
     /\ L.riAdjusted = ToWide(Frac(1715, 192))
     /\ L.finalLMI = ToWide(Frac(16807, 1920))

C4_Witness == pc = "scored" /\ AllTensExample(body)

WithCrossLift(input, cl) ==
  [input EXCEPT !.config = <<[calibration |-> ConfigField(input, "calibration"),
                              ri |-> ConfigField(input, "ri"),
                              crossLift |-> cl]>>]

AlphaSet == {R(-5), R(0), R(300)}

(* C5: with crossLift.enabled = false every computed value is the same for  *)
(* every alpha, and the same as under the default cross-lift config,        *)
(* whether that config is spelled out or left to the default.               *)
C5_CrossLiftDisabledNoOp ==
  pc = "scored" =>
    LET ref == Computed(WithCrossLift(body, Null))
    IN /\ \A a \in AlphaSet :
            Computed(WithCrossLift(body, <<[enabled |-> FALSE, alpha |-> a]>>)) = ref
       /\ Computed(WithCrossLift(body, <<DEFAULT_CONFIG.crossLift>>)) = ref
       /\ ~L.cfg.crossLift.enabled => ComputedOf(L) = ref

(* a disabled cross-lift with an alpha other than the default, on a time    *)
(* map where an enabled cross-lift would have raised Work quality           *)
C5_Witness ==
  /\ pc = "scored"
  /\ ~L.cfg.crossLift.enabled
  /\ L.cfg.crossLift.alpha # R(DefaultAlpha)
  /\ Uplift(L.cfg.crossLift, L.by, L.awakeHours, L.workQ0) # R(0)

ScoredIdx(answers) == {i \in 0..(Len(answers) - 1) : At(answers, i).score # Null}

(* e1 comes before e2 in the list sorted with the given sign *)
Before(sign, s1, i1, s2, i2) ==
  \/ sign * s1 < sign * s2
  \/ (s1 = s2 /\ i1 < i2)

TopListOK(top, answers, sign) ==
  LET n == Cardinality(ScoredIdx(answers))
  IN /\ Len(top) = IF n < 3 THEN n ELSE 3
     /\ \A j \in 1..Len(top) :
           /\ top[j].index \in ScoredIdx(answers)
           /\ top[j].score = At(answers, top[j].index).score[1]
           /\ top[j].note = At(answers, top[j].index).note
     /\ \A j \in 1..(Len(top) - 1) :
           Before(sign, top[j].score, top[j].index, top[j + 1].score, top[j + 1].index)
     /\ \A i \in ScoredIdx(answers) :
           \/ \E j \in 1..Len(top) : top[j].index = i
           \/ Before(sign, top[Len(top)].score, top[Len(top)].index,
                     At(answers, i).score[1], i)

(* C6: topDrainers and topUplifters hold min(3, number of scored answers)   *)
(* entries, only for scored answers; drainers are the lowest raw scores in  *)
(* ascending order, uplifters the highest in descending order, equal scores *)
(* in order of index; each entry has the answer's index, raw score and note.*)
C6_TopDrainersUplifters ==
  Called =>
    /\ TopListOK(L.drains, body.answers, 1)
    /\ TopListOK(L.lifts, body.answers, -1)

(* more than three scored answers, with a tie inside the drainers and a tie *)
(* at the cut of the uplifters                                              *)
C6_Witness ==
  /\ pc = "scored"
  /\ Cardinality(ScoredIdx(body.answers)) > 3
  /\ L.drains[1].score = L.drains[2].score
  /\ L.drains[1].note # L.drains[2].note
  /\ \E i \in ScoredIdx(body.answers) :
        /\ \A j \in 1..3 : L.lifts[j].index # i
        /\ At(body.answers, i).score[1] = L.lifts[3].score

DimIdx(dim) == {DIM_MAP[dim][j] : j \in 1..Len(DIM_MAP[dim])}

RECURSIVE SumAt(_, _)
SumAt(arr, S) ==
  IF S = {} THEN R(0)
  ELSE LET i == CHOOSE i \in S : TRUE IN RAdd(At(arr, i), SumAt(arr, S \ {i}))

(* a is the arithmetic mean of the defined values of arr at dim's indices   *)
MeanOK(arr, dim, a) ==
  LET S == {i \in DimIdx(dim) : At(arr, i) # Null}
  IN IF S = {} THEN a = Null
     ELSE /\ a # Null
          /\ RMul(a, R(Cardinality(S))) = SumAt(arr, S)
          /\ Cardinality(S) = 1 => a = At(arr, CHOOSE i \in S : TRUE)

(* the answer at index i replaced by one with other scores *)
Reanswered(answers, i) ==
  [answers EXCEPT ![i + 1] =
     [@ EXCEPT !.score = IF @ = Null THEN <<7>> ELSE Null,
               !.scenarioScore = IF @ = Null THEN <<2>> ELSE Null]]

(* C7: the dimension index sets partition 0..23; each dimension average,    *)
(* current and scenario, is the mean of the defined calibrated values at    *)
(* the dimension's indices, null when there is none, the value itself when  *)
(* there is one, and unchanged by changing an answer outside the dimension. *)
C7_DimensionAverages ==
  /\ \A i \in 0..(NumAnswers - 1) : Cardinality({dim \in DimensionKey : i \in DimIdx(dim)}) = 1
  /\ UNION {DimIdx(dim) : dim \in DimensionKey} = 0..(NumAnswers - 1)
  /\ Called =>
       \A dim \in DimensionKey :
          /\ MeanOK(L.current, dim, L.sectionCurrent[dim])
          /\ MeanOK(L.scenario, dim, L.sectionScenario[dim])
  /\ pc = "scored" =>
       \A i \in 0..(NumAnswers - 1) :
          LET other == Reanswered(body.answers, i)
              cur == Section(Calibrated(other, "score", L.cfg.calibration))
              scn == Section(Calibrated(other, "scenarioScore", L.cfg.calibration))
          IN \A dim \in DimensionKey :
                i \notin DimIdx(dim) =>
                   /\ cur[dim] = L.sectionCurrent[dim]
                   /\ scn[dim] = L.sectionScenario[dim]

(* a dimension without data, one with a single value and one averaging      *)
(* different values, in one call                                            *)
C7_Witness ==
  /\ pc = "scored"
  /\ \E dim \in DimensionKey : L.sectionCurrent[dim] = Null
  /\ \E dim \in DimensionKey :
        Cardinality({i \in DimIdx(dim) : At(L.current, i) # Null}) = 1
  /\ \E dim \in DimensionKey :
        \E i, j \in DimIdx(dim) :
           /\ At(L.scenario, i) = Null
           /\ At(L.current, i) # Null /\ At(L.current, j) # Null
           /\ At(L.current, i) # At(L.current, j)

LiftCategories == {"Relationships", "Gym", "Leisure"}

InOneToTen(x) == RLe(R(1), x) /\ RLe(x, R(10))

RowRIsInRange(input) ==
  \A j \in 1..Len(input.timeMap) :
     /\ input.timeMap[j].ri # Null
     /\ InOneToTen(input.timeMap[j].ri)
     /\ RLe(R(0), input.timeMap[j].hours)

(* C8: with cross-lift enabled, alpha >= 0, default calibration and every   *)
(* RI in 1..10, the adjusted Work quality of the current and of the         *)
(* scenario run lies in [1, 10] and is not below the quality before the     *)
(* adjustment; a Relationships, Gym or Leisure row with RI <= 5 adds        *)
(* nothing to the lift, and with all three at RI <= 5 the lift is 0.        *)
C8_CrossLiftEnabled ==
  (/\ Called
   /\ L.cfg.crossLift.enabled
   /\ RLe(R(0), L.cfg.crossLift.alpha)
   /\ L.cfg.calibration = DEFAULT_CONFIG.calibration
   /\ RowRIsInRange(body)) =>
     LET lift(by, w) == Uplift(L.cfg.crossLift, by, L.awakeHours, w)
     IN /\ InOneToTen(L.workQ) /\ RLe(L.workQ0, L.workQ)
        /\ InOneToTen(L.workQ_s) /\ RLe(L.workQ_s0, L.workQ_s)
        /\ \A c \in LiftCategories :
              RLe(L.by[c].ri, R(5)) =>
                 /\ lift([L.by EXCEPT ![c].hours = R(0)], L.workQ0) = lift(L.by, L.workQ0)
                 /\ lift([L.by EXCEPT ![c].hours = R(0)], L.workQ_s0) = lift(L.by, L.workQ_s0)
        /\ (\A c \in LiftCategories : RLe(L.by[c].ri, R(5))) =>
              /\ lift(L.by, L.workQ0) = R(0)
              /\ lift(L.by, L.workQ_s0) = R(0)

(* a lift that raised Work quality although the Relationships row, with     *)
(* hours, has an RI below 5                                                 *)
C8_Witness ==
  /\ pc = "scored"
  /\ L.cfg.crossLift.enabled
  /\ L.cfg.calibration = DEFAULT_CONFIG.calibration
  /\ RLt(L.workQ0, L.workQ)
  /\ RLt(L.workQ_s0, L.workQ_s)
  /\ RLt(L.by["Relationships"].ri, R(5))
  /\ RLt(R(0), L.by["Relationships"].hours)
  /\ L.awakeHours # R(0)

TrackedHours(by) ==
  RSum(<<by["Work"].hours, by["Commute"].hours, by["Gym"].hours,
         by["Relationships"].hours, by["Leisure"].hours>>)

Positions(timeMap, c) == {j \in 1..Len(timeMap) : timeMap[j].category = c}

(* C9: awakeHours = max(0, 168 - Sleep.hours) and otherAwake = max(0,       *)
(* awakeHours - tracked hours) are never negative; a missing category is 49 *)
(* hours for Sleep, 0 otherwise, with RI 5; the first row of a category     *)
(* wins; and when Sleep.hours <= 168 and the tracked hours fit in           *)
(* awakeHours, the seven hour weights of rawLMS sum to 168.                 *)
C9_WeekPartition ==
  (Called /\ RowRIsInRange(body)) =>
     LET sleep   == L.by["Sleep"].hours
         tracked == TrackedHours(L.by)
     IN /\ L.awakeHours = IF RLe(sleep, R(168)) THEN RSub(R(168), sleep) ELSE R(0)
        /\ L.otherAwake = IF RLe(tracked, L.awakeHours)
                          THEN RSub(L.awakeHours, tracked) ELSE R(0)
        /\ RLe(R(0), L.awakeHours) /\ RLe(R(0), L.otherAwake)
        /\ \A c \in TimeCategory :
              IF Positions(body.timeMap, c) = {}
              THEN L.by[c] = [category |-> c,
                              hours |-> IF c = "Sleep" THEN R(49) ELSE R(0),
                              ri |-> R(5)]
              ELSE \E j \in Positions(body.timeMap, c) :
                      /\ L.by[c] = body.timeMap[j]
                      /\ \A k \in Positions(body.timeMap, c) : j <= k
        /\ (RLe(sleep, R(168)) /\ RLe(tracked, L.awakeHours)) =>
              RAdd(RAdd(tracked, L.otherAwake), sleep) = R(168)

(* a time map with a repeated category whose rows differ, a missing         *)
(* category, and hours that fit in the week with a residue                  *)
C9_Witness ==
  /\ pc = "scored"
  /\ \E c \in TimeCategory :
        \E j, k \in Positions(body.timeMap, c) : j < k /\ body.timeMap[j] # body.timeMap[k]
  /\ \E c \in TimeCategory : Positions(body.timeMap, c) = {}
  /\ RLt(R(0), L.otherAwake)
  /\ RLt(R(0), TrackedHours(L.by))
  /\ RLt(L.by["Sleep"].hours, R(168))

WithoutCategory(timeMap, c) == SelectSeq(timeMap, LAMBDA r : r.category # c)

WithRows(timeMap, c, h, ri) ==
  Map(timeMap, LAMBDA r : IF r.category = c THEN [r EXCEPT !.hours = h, !.ri = ri] ELSE r)

WithHours(timeMap, c, h) ==
  Map(timeMap, LAMBDA r : IF r.category = c THEN [r EXCEPT !.hours = h] ELSE r)

WithRI(timeMap, c, ri) ==
  Map(timeMap, LAMBDA r : IF r.category = c THEN [r EXCEPT !.ri = ri] ELSE r)

(* time maps that differ from timeMap only in untracked values *)
UntrackedVariants(timeMap) ==
  {WithoutCategory(timeMap, "Chores"),
   WithoutCategory(timeMap, "Growth"),
   WithRows(WithRows(timeMap, "Chores", R(33), R(9)), "Growth", R(12), R(1)),
   WithHours(timeMap, "Other", R(3)),
   <<Row("Chores", 50, R(1))>> \o timeMap \o <<Row("Growth", 7, R(10))>>}

(* C10: inputs that differ only in the hours, RI or presence of the Chores  *)
(* and Growth rows or in the hours of the Other row give the same computed  *)
(* values in every field.                                                   *)
C10_UntrackedRowsIgnored ==
  pc = "scored" =>
    \A v \in UntrackedVariants(body.timeMap) :
       Computed([body EXCEPT !.timeMap = v]) = ComputedOf(L)

(* Chores, Growth and Other rows are present, there is residual awake time, *)
(* and the RI of the Other row does change the result                       *)
C10_Witness ==
  /\ pc = "scored"
  /\ \A c \in {"Chores", "Growth", "Other"} : Positions(body.timeMap, c) # {}
  /\ RLt(R(0), L.by["Other"].hours)
  /\ Computed([body EXCEPT !.timeMap = WithRI(body.timeMap, "Other", R(8))]) # ComputedOf(L)

====
